---- MODULE Spec2Model ----
(***************************************************************************)
(* The extent-hook indirection layer of jemalloc                           *)
(* (include/jemalloc/internal/ehooks.h): one hook handle (ehooks_t) whose  *)
(* atomic pointer names the active extent_hooks_t table, the nine dispatch *)
(* wrappers ehooks_alloc .. ehooks_merge, the two will-fail predicates and *)
(* the raw reentrancy guard around calls into a non-default table.         *)
(*                                                                         *)
(* Granularity.  The only shared memory is ehooks->ptr, so a step of the   *)
(* model holds at most one access to it: the load at the head of a         *)
(* wrapper together with the thread-local work that follows it, the second *)
(* load that ehooks_split makes through ehooks_are_default, the return of  *)
(* a hook together with ehooks_post_reentrancy, and the atomic store of    *)
(* ehooks_set_extent_hooks_ptr.  A hook is external code: while it runs,   *)
(* other threads run, the handle may be replaced, and the hook may call    *)
(* back into the allocator (a nested ehooks_alloc).                        *)
(***************************************************************************)
EXTENDS Integers, Sequences, FiniteSets, TLC

\* Number of threads that dispatch concurrently.
NumThreads == 2

\* Dispatch calls in progress at once, over all threads (nesting included).
MaxInFlight == 2

Threads == 1..NumThreads

----------------------------------------------------------------------------
(* Values *)

\* The nine slots of extent_hooks_t, one per dispatch wrapper.
Ops ==
    {"alloc", "dalloc", "destroy", "commit", "decommit",
     "purge_lazy", "purge_forced", "split", "merge"}

\* What a hook may call back into while it runs (ehooks.h:47-60: allocating
\* from within extent hooks).
NestedOps == {"alloc"}

\* A function a slot may hold or a wrapper may call.
Fn(kind, op) == [kind |-> kind, op |-> op]

\* The null function pointer of an absent slot.
NULL == Fn("NULL", "none")

\* No function has been called.
NoFn == Fn("nothing", "none")

\* &ehooks_default_extent_hooks
DefaultRef == "ehooks_default_extent_hooks"

\* Caller-supplied tables: one holding the very functions of the default
\* table, one with only alloc populated, one with every slot populated, and
\* one left zero-filled (no slot populated, alloc included).
CustomRefs ==
    {"hooks_same_as_default", "hooks_alloc_only", "hooks_full", "hooks_zeroed"}

TableRefs == {DefaultRef} \cup CustomRefs

\* The slots of ehooks_default_extent_hooks: every operation, the purge
\* slots only where the platform can purge.
DefaultHooks(lazy, forced) ==
    [op \in Ops |->
        IF (op = "purge_lazy" /\ ~lazy) \/ (op = "purge_forced" /\ ~forced)
        THEN NULL
        ELSE Fn("ehooks_default", op)]

AllocOnlyHooks == [op \in Ops |-> IF op = "alloc" THEN Fn("user", op) ELSE NULL]

FullHooks == [op \in Ops |-> Fn("user", op)]

ZeroedHooks == [op \in Ops |-> NULL]

TablesFor(lazy, forced) ==
    [r \in TableRefs |->
        CASE r = DefaultRef -> DefaultHooks(lazy, forced)
          [] r = "hooks_same_as_default" -> DefaultHooks(lazy, forced)
          [] r = "hooks_alloc_only" -> AllocOnlyHooks
          [] r = "hooks_full" -> FullHooks
          [] r = "hooks_zeroed" -> ZeroedHooks]

\* ehooks_default_<op>_impl, the fast-path function of op.
DefaultImpl(op) == Fn("ehooks_default_impl", op)

\* What a call of fn may return: a pointer (null or not) for alloc, nothing
\* for destroy, a bool (true = failure) for the rest.  The default backend
\* never splits.  A call through a null pointer is undefined: if the thread
\* goes on at all (it need not: no step of the model is ever forced), it
\* goes on with any pointer.
Results(fn) ==
    CASE fn = NULL -> {"nullptr", "addr"}
      [] fn.op = "alloc" -> {"nullptr", "addr"}
      [] fn.op = "destroy" -> {"void"}
      [] fn.op = "split" /\ fn.kind \in {"ehooks_default", "ehooks_default_impl"}
            -> {"true"}
      [] OTHER -> {"true", "false"}

----------------------------------------------------------------------------
VARIABLES
    can_purge_lazy,     \* PAGES_CAN_PURGE_LAZY is defined
    can_purge_forced,   \* PAGES_CAN_PURGE_FORCED is defined
    tables,             \* the extent_hooks_t objects, by address
    ptr,                \* ehooks->ptr
    published,          \* history: the argument of the latest init or install
    replaced,           \* history: an install has happened
    level,              \* per thread: tsd's reentrancy_level
    stack,              \* per thread: the dispatch calls in progress
    pred                \* per thread: the will-fail answer the caller holds

vars ==
    <<can_purge_lazy, can_purge_forced, tables, ptr, published, replaced,
      level, stack, pred>>

NoPred == [which |-> "none", tbl |-> "none", pub |-> "none", res |-> "none"]

----------------------------------------------------------------------------
(* The handle *)

\* atomic_store_p(p, v, ATOMIC_RELEASE): the word after the store, given the
\* word before it.  One indivisible store of a whole pointer.
atomic_store_p(word, v) == v

\* atomic_load_p(p, ATOMIC_ACQUIRE): the value read from the word.
atomic_load_p(word) == word

\* Faulty variant: the store never reaches the word.
ehooks_set_extent_hooks_ptr_lost(old, extent_hooks) == old

\* The new value of ehooks->ptr.
ehooks_set_extent_hooks_ptr(old, extent_hooks) ==
    atomic_store_p(old, extent_hooks)

ehooks_get_extent_hooks_ptr == atomic_load_p(ptr)

\* Faulty variant: the default table is recognised by its contents.
is_default_table_by_content(extent_hooks) ==
    tables[extent_hooks] = tables[DefaultRef]

\* The identity comparison extent_hooks == &ehooks_default_extent_hooks.
is_default_table(extent_hooks) == extent_hooks = DefaultRef

ehooks_are_default == is_default_table(ehooks_get_extent_hooks_ptr)

slot_is_null(extent_hooks, op) == tables[extent_hooks][op] = NULL

bool_str(b) == IF b THEN "true" ELSE "false"

\* Faulty variant: the test of the split slot is inverted.
ehooks_split_will_fail_inverted ==
    bool_str(~slot_is_null(ehooks_get_extent_hooks_ptr, "split"))

ehooks_split_will_fail ==
    bool_str(slot_is_null(ehooks_get_extent_hooks_ptr, "split"))

\* Faulty variant: the test of the merge slot is inverted.
ehooks_merge_will_fail_inverted ==
    bool_str(~slot_is_null(ehooks_get_extent_hooks_ptr, "merge"))

ehooks_merge_will_fail ==
    bool_str(slot_is_null(ehooks_get_extent_hooks_ptr, "merge"))

----------------------------------------------------------------------------
(* The reentrancy guard *)

\* The tsdn a thread passes: thread 1 has no thread context yet and passes
\* a null tsdn (0), the others pass their own.
tsdn_of(t) == IF t = 1 THEN 0 ELSE t

tsdn_null(tsdn) == tsdn = 0

\* Faulty variant: every thread uses the thread context of thread 1.
tsd_of_shared(t, tsdn) == 1

\* tsdn_null(tsdn) ? tsd_fetch() : tsdn_tsd(tsdn), on thread t.
tsd_of(t, tsdn) == IF tsdn_null(tsdn) THEN t ELSE tsdn

tsd_pre_reentrancy_raw(lvl, tsd) == [lvl EXCEPT ![tsd] = @ + 1]

tsd_post_reentrancy_raw(lvl, tsd) == [lvl EXCEPT ![tsd] = @ - 1]

ehooks_pre_reentrancy(lvl, t, tsdn) ==
    tsd_pre_reentrancy_raw(lvl, tsd_of(t, tsdn))

\* Faulty variant: the guard is entered and never left.
ehooks_post_reentrancy_skipped(lvl, t, tsdn) == lvl

ehooks_post_reentrancy(lvl, t, tsdn) ==
    tsd_post_reentrancy_raw(lvl, tsd_of(t, tsdn))

----------------------------------------------------------------------------
(* The dispatch policy *)

\* Faulty variant: the purge wrappers test for the default table in every build.
has_default_test_always(op) == TRUE

\* Faulty variant: no wrapper has a fast path.
has_default_test_never(op) == FALSE

\* Whether the wrapper of op holds the test against the default table: the
\* purge wrappers hold it under #ifdef PAGES_CAN_PURGE_*.
has_default_test(op) ==
    CASE op = "purge_lazy" -> can_purge_lazy
      [] op = "purge_forced" -> can_purge_forced
      [] OTHER -> TRUE

\* Faulty variant: ehooks_alloc tests its slot against NULL like the rest.
has_null_test_all(op) == TRUE

\* Whether the wrapper of op tests its slot against NULL: all but alloc.
has_null_test(op) == op # "alloc"

\* The branch a wrapper takes, from the table it loaded (extent_hooks) and
\* the outcome of its comparison with the default table (isdef).
branch(op, extent_hooks, isdef) ==
    IF has_default_test(op) /\ isdef THEN "default"
    ELSE IF has_null_test(op) /\ slot_is_null(extent_hooks, op) THEN "absent"
    ELSE "hook"

\* Faulty variant: an absent slot reports success.
absent_result_success(op) == IF op = "destroy" THEN "void" ELSE "false"

\* return true; (a plain return for destroy)
absent_result(op) == IF op = "destroy" THEN "void" ELSE "true"

\* Faulty variant: the hook's bool is inverted on the way out.
return_value_inverted(op, err) ==
    CASE op = "destroy" -> "void"
      [] err = "true" -> "false"
      [] err = "false" -> "true"
      [] OTHER -> err

\* return err; / return ret; (destroy returns nothing)
return_value(op, err) == IF op = "destroy" THEN "void" ELSE err

----------------------------------------------------------------------------
(* Calls in progress *)

\* A call that has just loaded the table reference.
\*   eh       extent_hooks, the reference loaded at the head of the wrapper
\*   chk      the reference the comparison with the default table read
\*   pub      history: the latest published reference when eh was loaded
\*   path     the branch taken; fn the function called; calls the number of
\*            calls made through a slot of eh
\*   lvl0     history: the thread's reentrancy level before the call
\*   err      what fn returned; ret what the wrapper returns
\*   wf       the will-fail answer the caller got for this table, if any
NewFrame(t, op, wf) ==
    [op |-> op, pc |-> "loaded",
     eh |-> ehooks_get_extent_hooks_ptr, chk |-> "none", pub |-> published,
     path |-> "none", fn |-> NoFn, calls |-> 0, lvl0 |-> level[t],
     err |-> "none", ret |-> "none", wf |-> wf]

InFlight ==
    LET RECURSIVE Sum(_)
        Sum(S) == IF S = {} THEN 0
                  ELSE LET t == CHOOSE x \in S : TRUE
                       IN Len(stack[t]) + Sum(S \ {t})
    IN Sum(Threads)

Top(t) == stack[t][Len(stack[t])]

Below(t) == SubSeq(stack[t], 1, Len(stack[t]) - 1)

\* The rest of a wrapper once both references are known: the default fast
\* path, the absent-slot fallback, or the guard and the call of the slot.
Decide(t, rest, f, isdef) ==
    LET path == branch(f.op, f.eh, isdef) IN
    \/ /\ path = "default"
       /\ \E v \in Results(DefaultImpl(f.op)) :
            stack' = [stack EXCEPT ![t] = Append(rest,
                [f EXCEPT !.pc = "ret", !.path = path,
                          !.fn = DefaultImpl(f.op), !.err = v,
                          !.ret = return_value(f.op, v)])]
       /\ UNCHANGED level
    \/ /\ path = "absent"
       /\ stack' = [stack EXCEPT ![t] = Append(rest,
                [f EXCEPT !.pc = "ret", !.path = path,
                          !.ret = absent_result(f.op)])]
       /\ UNCHANGED level
    \/ /\ path = "hook"
       /\ level' = ehooks_pre_reentrancy(level, t, tsdn_of(t))
       /\ stack' = [stack EXCEPT ![t] = Append(rest,
                [f EXCEPT !.pc = "inhook", !.path = path,
                          !.fn = tables[f.eh][f.op], !.calls = 1])]

\* Thread t may start a call of op: from the extent manager, or from inside
\* a hook.
CanCall(t, op) ==
    /\ InFlight < MaxInFlight
    /\ \/ stack[t] = << >>
       \/ /\ stack[t] # << >>
          /\ Top(t).pc = "inhook"
          /\ op \in NestedOps

\* The will-fail answer that still describes the table a call of op loads.
Carried(t, op) ==
    IF pred[t].which = op /\ pred[t].tbl = ehooks_get_extent_hooks_ptr
    THEN pred[t].res ELSE "none"

\* The head of a wrapper other than ehooks_split: the load, then the rest.
Call(t, op) ==
    /\ CanCall(t, op)
    /\ LET f == NewFrame(t, op, Carried(t, op)) IN
       Decide(t, stack[t], [f EXCEPT !.chk = f.eh], is_default_table(f.eh))
    /\ pred' = [pred EXCEPT ![t] = NoPred]
    /\ UNCHANGED <<can_purge_lazy, can_purge_forced, tables, ptr, published,
                   replaced>>

ehooks_alloc(t) == Call(t, "alloc")

ehooks_dalloc(t) == Call(t, "dalloc")

ehooks_destroy(t) == Call(t, "destroy")

ehooks_commit(t) == Call(t, "commit")

ehooks_decommit(t) == Call(t, "decommit")

ehooks_purge_lazy(t) == Call(t, "purge_lazy")

ehooks_purge_forced(t) == Call(t, "purge_forced")

ehooks_merge(t) == Call(t, "merge")

\* ehooks_split, line 233: the load of extent_hooks.
ehooks_split(t) ==
    /\ CanCall(t, "split")
    /\ stack' = [stack EXCEPT ![t] =
                    Append(@, NewFrame(t, "split", Carried(t, "split")))]
    /\ pred' = [pred EXCEPT ![t] = NoPred]
    /\ UNCHANGED <<can_purge_lazy, can_purge_forced, tables, ptr, published,
                   replaced, level>>

\* ehooks_split, lines 234-244: ehooks_are_default loads the reference
\* again, then the rest.
ehooks_split_rest(t) ==
    /\ stack[t] # << >>
    /\ Top(t).pc = "loaded"
    /\ Decide(t, Below(t),
              [Top(t) EXCEPT !.chk = ehooks_get_extent_hooks_ptr],
              ehooks_are_default)
    /\ UNCHANGED <<can_purge_lazy, can_purge_forced, tables, ptr, published,
                   replaced, pred>>

\* Faulty variant: on the way out the wrapper stores the table it loaded back
\* into the handle.
HookReturn_restoring(t) ==
    /\ stack[t] # << >>
    /\ Top(t).pc = "inhook"
    /\ \E v \in Results(Top(t).fn) :
         stack' = [stack EXCEPT ![t] = Append(Below(t),
            [Top(t) EXCEPT !.pc = "ret", !.err = v,
                           !.ret = return_value(Top(t).op, v)])]
    /\ level' = ehooks_post_reentrancy(level, t, tsdn_of(t))
    /\ ptr' = atomic_store_p(ptr, Top(t).eh)
    /\ UNCHANGED <<can_purge_lazy, can_purge_forced, tables, published,
                   replaced, pred>>

\* The hook called through the slot returns; the guard is left and the
\* wrapper has its result.
HookReturn(t) ==
    /\ stack[t] # << >>
    /\ Top(t).pc = "inhook"
    /\ \E v \in Results(Top(t).fn) :
         stack' = [stack EXCEPT ![t] = Append(Below(t),
            [Top(t) EXCEPT !.pc = "ret", !.err = v,
                           !.ret = return_value(Top(t).op, v)])]
    /\ level' = ehooks_post_reentrancy(level, t, tsdn_of(t))
    /\ UNCHANGED <<can_purge_lazy, can_purge_forced, tables, ptr, published,
                   replaced, pred>>

\* Faulty variant: a wrapper returns only while the handle still names the
\* table it loaded.
Return_waiting(t) ==
    /\ stack[t] # << >>
    /\ Top(t).pc = "ret"
    /\ Top(t).eh = ehooks_get_extent_hooks_ptr
    /\ stack' = [stack EXCEPT ![t] = Below(t)]
    /\ UNCHANGED <<can_purge_lazy, can_purge_forced, tables, ptr, published,
                   replaced, level, pred>>

\* The wrapper returns to its caller.
Return(t) ==
    /\ stack[t] # << >>
    /\ Top(t).pc = "ret"
    /\ stack' = [stack EXCEPT ![t] = Below(t)]
    /\ UNCHANGED <<can_purge_lazy, can_purge_forced, tables, ptr, published,
                   replaced, level, pred>>

\* The extent manager asks whether a split (a merge) is doomed.
SplitWillFail(t) ==
    /\ stack[t] = << >>
    /\ pred' = [pred EXCEPT ![t] =
                    [which |-> "split", tbl |-> ehooks_get_extent_hooks_ptr,
                     pub |-> published, res |-> ehooks_split_will_fail]]
    /\ UNCHANGED <<can_purge_lazy, can_purge_forced, tables, ptr, published,
                   replaced, level, stack>>

MergeWillFail(t) ==
    /\ stack[t] = << >>
    /\ pred' = [pred EXCEPT ![t] =
                    [which |-> "merge", tbl |-> ehooks_get_extent_hooks_ptr,
                     pub |-> published, res |-> ehooks_merge_will_fail]]
    /\ UNCHANGED <<can_purge_lazy, can_purge_forced, tables, ptr, published,
                   replaced, level, stack>>

\* Faulty variant: an install waits until no dispatch is in flight.
Install_quiescent(extent_hooks) ==
    /\ \A t \in Threads : stack[t] = << >>
    /\ ptr' = ehooks_set_extent_hooks_ptr(ptr, extent_hooks)
    /\ published' = extent_hooks
    /\ replaced' = TRUE
    /\ UNCHANGED <<can_purge_lazy, can_purge_forced, tables, level, stack,
                   pred>>

\* Some thread installs another table: one atomic store.
Install(extent_hooks) ==
    /\ ptr' = ehooks_set_extent_hooks_ptr(ptr, extent_hooks)
    /\ published' = extent_hooks
    /\ replaced' = TRUE
    /\ UNCHANGED <<can_purge_lazy, can_purge_forced, tables, level, stack,
                   pred>>

----------------------------------------------------------------------------
\* ehooks_init: the handle starts with the default table or a caller's; the
\* capabilities are those of the build.
Init ==
    /\ can_purge_lazy \in BOOLEAN
    /\ can_purge_forced \in BOOLEAN
    /\ tables = TablesFor(can_purge_lazy, can_purge_forced)
    /\ ptr \in TableRefs
    /\ published = ptr
    /\ replaced = FALSE
    /\ level = [t \in Threads |-> 0]
    /\ stack = [t \in Threads |-> << >>]
    /\ pred = [t \in Threads |-> NoPred]

Next ==
    \/ \E t \in Threads : ehooks_alloc(t)
    \/ \E t \in Threads : ehooks_dalloc(t)
    \/ \E t \in Threads : ehooks_destroy(t)
    \/ \E t \in Threads : ehooks_commit(t)
    \/ \E t \in Threads : ehooks_decommit(t)
    \/ \E t \in Threads : ehooks_purge_lazy(t)
    \/ \E t \in Threads : ehooks_purge_forced(t)
    \/ \E t \in Threads : ehooks_split(t)
    \/ \E t \in Threads : ehooks_split_rest(t)
    \/ \E t \in Threads : ehooks_merge(t)
    \/ \E t \in Threads : HookReturn(t)
    \/ \E t \in Threads : Return(t)
    \/ \E t \in Threads : SplitWillFail(t)
    \/ \E t \in Threads : MergeWillFail(t)
    \/ \E r \in TableRefs : Install(r)

Spec == Init /\ [][Next]_vars

----------------------------------------------------------------------------
(* Properties *)

Positions(t) == DOMAIN stack[t]

\* A call that is past its loads.
Decided(f) == f.pc # "loaded"

\* The handle named a custom table at every load the call made.
SawCustom(f) == f.eh \in CustomRefs /\ f.chk \in CustomRefs

Gated(op) ==
    \/ op = "purge_lazy" /\ ~can_purge_lazy
    \/ op = "purge_forced" /\ ~can_purge_forced

\* C1.  Absent-slot fallback: a call of dalloc, commit, decommit,
\* purge_lazy, purge_forced, split or merge on a handle that names a custom
\* table whose slot for it is NULL returns true, calls no hook and no
\* default-backend function and leaves the reentrancy level alone; destroy
\* returns with nothing called and nothing changed.
C1_AbsentSlotFallback ==
    \A t \in Threads : \A i \in Positions(t) :
        LET f == stack[t][i] IN
        (/\ Decided(f)
         /\ SawCustom(f)
         /\ f.op # "alloc"
         /\ tables[f.eh][f.op] = NULL)
        => /\ f.pc = "ret"
           /\ f.path = "absent"
           /\ f.ret = (IF f.op = "destroy" THEN "void" ELSE "true")
           /\ f.fn = NoFn
           /\ f.calls = 0
           /\ level[t] = f.lvl0

C1_Witness ==
    \E t \in Threads :
        /\ stack[t] # << >>
        /\ Top(t).pc = "ret"
        /\ Top(t).eh = "hooks_alloc_only"
        /\ Top(t).chk = "hooks_alloc_only"
        /\ Top(t).op = "dalloc"
        /\ Top(t).ret = "true"

\* C2.  Guard balance: when a call has its result, whatever the hook
\* returned, the thread's reentrancy level is what it was before the call;
\* a thread outside every call has level 0.
C2_GuardBalance ==
    \A t \in Threads :
        /\ stack[t] = << >> => level[t] = 0
        /\ (stack[t] # << >> /\ Top(t).pc = "ret") => level[t] = Top(t).lvl0

C2_Witness ==
    \E t \in Threads : \E u \in Threads \ {t} :
        /\ replaced
        /\ stack[t] # << >>
        /\ Top(t).pc = "ret"
        /\ Top(t).path = "hook"
        /\ Top(t).err = "true"
        /\ level[t] = 0
        /\ stack[u] # << >>
        /\ Top(u).pc = "inhook"
        /\ level[u] = 1

C4_GatedPurgeSkipsHook ==
    \A t \in Threads : \A i \in Positions(t) :
        LET f == stack[t][i] IN
        (/\ Gated(f.op)
         /\ SawCustom(f)
         /\ tables[f.eh][f.op] # NULL)
        => /\ f.pc = "ret"
           /\ f.calls = 0
           /\ f.ret = "true"

\* C4, amended.  Without the capability the purge wrapper never calls the
\* default fast-path function, whatever table it loaded; a populated slot
\* of a custom table is called once, inside the guard, and its result is
\* returned; true is returned directly only when the slot is NULL.
C4_GatedPurgeSkipsFastPath ==
    \A t \in Threads : \A i \in Positions(t) :
        LET f == stack[t][i] IN
        Gated(f.op)
        => /\ f.fn # DefaultImpl(f.op)
           /\ f.path # "default"
           /\ (f.eh \in CustomRefs /\ tables[f.eh][f.op] # NULL)
                => /\ f.path = "hook"
                   /\ f.calls = 1
                   /\ f.fn = tables[f.eh][f.op]
                   /\ f.pc = "ret" => f.ret = f.err
           /\ tables[f.eh][f.op] = NULL
                => /\ f.path = "absent"
                   /\ f.calls = 0
                   /\ f.ret = "true"

C4_Witness ==
    /\ ~can_purge_lazy
    /\ \E t \in Threads :
        /\ stack[t] # << >>
        /\ Top(t).pc = "ret"
        /\ Top(t).op = "purge_lazy"
        /\ Top(t).eh = "hooks_full"
        /\ Top(t).calls = 1
        /\ Top(t).ret = "false"

\* The will-fail answer was taken from the table the split then ran on.
SplitAfterAnswer(f) ==
    /\ f.pc = "ret"
    /\ f.op = "split"
    /\ f.wf # "none"
    /\ f.chk = f.eh

\* C5, as claimed.  Predicate/actual agreement: with no install in between,
\* ehooks_split_will_fail is true if and only if ehooks_split returns true.
C5_WillFailIffSplitFails ==
    \A t \in Threads : \A i \in Positions(t) :
        LET f == stack[t][i] IN
        SplitAfterAnswer(f) => (f.wf = "true" <=> f.ret = "true")

\* C5, amended.  With no install in between, ehooks_split_will_fail true
\* implies that ehooks_split returns true, with no hook called; when it is
\* false, ehooks_split returns what the split function it calls returns,
\* which may be true as well.
C5_WillFailImpliesSplitFails ==
    \A t \in Threads : \A i \in Positions(t) :
        LET f == stack[t][i] IN
        SplitAfterAnswer(f)
        => /\ f.wf = "true" => (f.ret = "true" /\ f.calls = 0)
           /\ f.wf = "false" => (f.fn # NoFn /\ f.ret = f.err)

C5_Witness ==
    \E t \in Threads : \E u \in Threads \ {t} :
        /\ stack[t] # << >> /\ stack[u] # << >>
        /\ SplitAfterAnswer(Top(t))
        /\ Top(t).eh = "hooks_alloc_only"
        /\ Top(t).wf = "true"
        /\ Top(t).ret = "true"
        /\ SplitAfterAnswer(Top(u))
        /\ Top(u).eh = "hooks_full"
        /\ Top(u).wf = "false"
        /\ Top(u).ret = "true"

\* C6.  Atomic publish visibility: the word always holds the reference
\* given to the latest init or install, and every load, by a wrapper or a
\* predicate, returned the whole reference published last before it.
C6_AtomicPublish ==
    /\ ptr = published
    /\ ehooks_get_extent_hooks_ptr \in TableRefs
    /\ \A t \in Threads :
        /\ pred[t] # NoPred =>
              (pred[t].tbl = pred[t].pub /\ pred[t].tbl \in TableRefs)
        /\ \A i \in Positions(t) :
              LET f == stack[t][i] IN
              /\ f.eh = f.pub
              /\ f.eh \in TableRefs
              /\ Decided(f) => f.chk \in TableRefs

C6_Witness ==
    \E t \in Threads : \E u \in Threads \ {t} :
        /\ replaced
        /\ ptr = "hooks_alloc_only"
        /\ stack[t] # << >> /\ stack[u] # << >>
        /\ Top(t).pc = "inhook"
        /\ Top(t).eh = "hooks_full"
        /\ Top(u).eh = "hooks_alloc_only"

\* C7.  Verbatim propagation without retry: a call on a custom table whose
\* slot is populated calls the slot's function once and returns exactly
\* what the function returned.
C7_VerbatimPropagation ==
    \A t \in Threads : \A i \in Positions(t) :
        LET f == stack[t][i] IN
        (/\ Decided(f)
         /\ SawCustom(f)
         /\ tables[f.eh][f.op] # NULL)
        => /\ f.path = "hook"
           /\ f.calls = 1
           /\ f.fn = tables[f.eh][f.op]
           /\ f.pc = "ret" =>
                /\ f.err \in Results(f.fn)
                /\ f.ret = (IF f.op = "destroy" THEN "void" ELSE f.err)

C7_Witness ==
    \E t \in Threads : \E u \in Threads \ {t} :
        /\ stack[t] # << >> /\ stack[u] # << >>
        /\ Top(t).pc = "ret"
        /\ Top(t).eh = "hooks_full"
        /\ Top(t).op = "dalloc"
        /\ Top(t).err = "true"
        /\ Top(t).ret = "true"
        /\ Top(u).pc = "ret"
        /\ Top(u).eh = "hooks_full"
        /\ Top(u).op = "merge"
        /\ Top(u).err = "false"
        /\ Top(u).ret = "false"

\* C8.  Identity, not structure: a handle that names a custom table holding
\* the very functions of the default table is not default, and a call on
\* it with a populated slot enters the guard and calls through the slot,
\* not the fast-path function.
C8_IdentityNotStructure ==
    /\ ptr = "hooks_same_as_default" => ~ehooks_are_default
    /\ \A t \in Threads : \A i \in Positions(t) :
        LET f == stack[t][i] IN
        (/\ Decided(f)
         /\ f.eh = "hooks_same_as_default"
         /\ f.chk = "hooks_same_as_default"
         /\ tables[f.eh][f.op] # NULL)
        => /\ f.path = "hook"
           /\ f.calls = 1
           /\ f.fn = tables[DefaultRef][f.op]
           /\ f.fn # DefaultImpl(f.op)
           /\ (f.pc = "inhook" /\ i = Len(stack[t])) => level[t] = f.lvl0 + 1

C8_Witness ==
    /\ tables["hooks_same_as_default"] = tables[DefaultRef]
    /\ ptr = "hooks_same_as_default"
    /\ \E t \in Threads :
        /\ stack[t] # << >>
        /\ Top(t).pc = "inhook"
        /\ Top(t).op = "decommit"
        /\ Top(t).eh = "hooks_same_as_default"
        /\ level[t] = 1

\* C9, as claimed.  Single-load dispatch: every wrapper decides between the
\* default and the custom path on the reference it loaded at its head, so
\* no call makes a guarded call through a slot of the default table and no
\* call runs a default fast-path function after loading a custom table.
C9_SingleLoadDispatch ==
    \A t \in Threads : \A i \in Positions(t) :
        LET f == stack[t][i] IN
        Decided(f)
        => /\ f.chk = f.eh
           /\ ~(f.path = "hook" /\ f.eh = DefaultRef)
           /\ ~(f.path = "default" /\ f.eh \in CustomRefs)

\* A will-fail predicate is what this step runs on thread t.
PredicateStep(t) == pred'[t] # pred[t] /\ pred'[t] # NoPred

\* C10.  Pure predicates: a will-fail answer is true exactly when the slot
\* of the table the predicate loaded is NULL, the default table included;
\* the predicate changes neither the handle nor a reentrancy level and
\* starts no call; and a merge that follows a true answer on a custom
\* table returns true without entering the guard.
C10_PurePredicates ==
    /\ [](\A t \in Threads :
            /\ pred[t].which \in {"split", "merge"} =>
                 (pred[t].res = "true" <=>
                     tables[pred[t].tbl][pred[t].which] = NULL)
            /\ \A i \in Positions(t) :
                 LET f == stack[t][i] IN
                 (f.pc = "ret" /\ f.op = "merge" /\ f.wf = "true")
                 => /\ f.eh \in CustomRefs
                    /\ f.ret = "true"
                    /\ f.path = "absent"
                    /\ f.calls = 0
                    /\ level[t] = f.lvl0)
    /\ [][\A t \in Threads :
            PredicateStep(t) =>
                /\ ptr' = ptr
                /\ level' = level
                /\ stack' = stack
                /\ pred'[t].tbl = ptr]_vars

C10_Witness ==
    \E t \in Threads : \E u \in Threads \ {t} :
        /\ stack[t] # << >>
        /\ Top(t).pc = "ret"
        /\ Top(t).op = "merge"
        /\ Top(t).eh = "hooks_alloc_only"
        /\ Top(t).wf = "true"
        /\ Top(t).ret = "true"
        /\ stack[u] = << >>
        /\ pred[u].which = "merge"
        /\ pred[u].tbl = DefaultRef
        /\ pred[u].res = "false"

\* A step of a dispatch wrapper or of a predicate: a call starts, goes on or
\* returns, or a will-fail answer is taken.
ReaderStep == stack' # stack \/ level' # level \/ pred' # pred

\* C11.  Dispatch is read-only on the handle: no step of a dispatch wrapper
\* or of a will-fail predicate (ehooks_get_extent_hooks_ptr and
\* ehooks_are_default are evaluated inside those steps) changes ehooks->ptr
\* or a slot of a table; in every state the handle holds the argument of
\* the latest init or install and every table holds the slots it was
\* published with.
C11_DispatchReadOnly ==
    /\ [](/\ ehooks_get_extent_hooks_ptr = published
          /\ tables = TablesFor(can_purge_lazy, can_purge_forced))
    /\ [][ReaderStep => (ptr' = ptr /\ tables' = tables)]_vars

C11_Witness ==
    \E t \in Threads : \E u \in Threads \ {t} :
        /\ replaced
        /\ ptr = "hooks_same_as_default"
        /\ stack[t] # << >>
        /\ Top(t).pc = "ret"
        /\ Top(t).path = "hook"
        /\ Top(t).eh = "hooks_full"
        /\ Top(t).op = "commit"
        /\ stack[u] = << >>
        /\ pred[u].which = "split"
        /\ pred[u].tbl = "hooks_full"

\* C12.  Stale-table execution is possible and unblocked: an install is
\* enabled in every state, whatever is in flight, and a call that loaded a
\* custom table which the handle no longer names still calls that table's
\* slot, once, inside the guard, and returns what that slot's function
\* returned.
C12_StaleTableExecution ==
    /\ \A r \in TableRefs : ENABLED Install(r)
    /\ \A t \in Threads : \A i \in Positions(t) :
        LET f == stack[t][i] IN
        (/\ Decided(f)
         /\ SawCustom(f)
         /\ ptr # f.eh
         /\ tables[f.eh][f.op] # NULL)
        => /\ f.path = "hook"
           /\ f.calls = 1
           /\ f.fn = tables[f.eh][f.op]
           /\ (f.pc = "inhook" /\ i = Len(stack[t])) => level[t] = f.lvl0 + 1
           /\ f.pc = "ret" =>
                /\ f.err \in Results(tables[f.eh][f.op])
                /\ f.ret = (IF f.op = "destroy" THEN "void" ELSE f.err)

C12_Witness ==
    \E t \in Threads : \E u \in Threads \ {t} :
        /\ replaced
        /\ ptr = "hooks_alloc_only"
        /\ stack[t] # << >> /\ stack[u] # << >>
        /\ Top(t).pc = "inhook"
        /\ Top(t).eh = "hooks_full"
        /\ Top(t).op = "decommit"
        /\ Top(t).fn = Fn("user", "decommit")
        /\ level[t] = 1
        /\ Top(u).pc = "ret"
        /\ Top(u).eh = "hooks_full"
        /\ Top(u).op = "commit"
        /\ Top(u).fn = Fn("user", "commit")
        /\ Top(u).ret = "false"

\* The calls of thread t that are inside the guard, in a function called
\* through a slot.
GuardedCalls(t) == {i \in Positions(t) : stack[t][i].pc = "inhook"}

\* C13.  The reentrancy level is the depth of guarded calls: in every state
\* each thread's level is the number of its own calls that are inside a
\* function called through a slot (so no other thread's calls count); a
\* call made from inside such a function is not refused; a call that took
\* the default fast path or the absent-slot fallback has left the level as
\* it found it.
C13_LevelIsGuardedDepth ==
    \A t \in Threads :
        /\ level[t] = Cardinality(GuardedCalls(t))
        /\ (/\ stack[t] # << >>
            /\ Top(t).pc = "inhook"
            /\ InFlight < MaxInFlight) => ENABLED ehooks_alloc(t)
        /\ \A i \in Positions(t) :
             LET f == stack[t][i] IN
             (f.pc = "ret" /\ f.path \in {"default", "absent"})
             => /\ f.calls = 0
                /\ i = Len(stack[t]) => level[t] = f.lvl0

C13_Witness ==
    \E t \in Threads : \E u \in Threads \ {t} :
        /\ Len(stack[t]) = 2
        /\ stack[t][1].pc = "inhook"
        /\ stack[t][1].op = "dalloc"
        /\ stack[t][2].pc = "inhook"
        /\ stack[t][2].op = "alloc"
        /\ level[t] = 2
        /\ stack[u] = << >>
        /\ level[u] = 0

\* C14.  ehooks_alloc has no absent-slot fallback: a call of it that loaded
\* a table other than the default one never returns through the fallback;
\* it enters the guard and calls whatever the alloc slot holds, a null
\* pointer included, once, and when that call returns it leaves the guard
\* and returns the pointer the call returned.
C14_AllocNoFallback ==
    \A t \in Threads : \A i \in Positions(t) :
        LET f == stack[t][i] IN
        (f.op = "alloc" /\ f.eh # DefaultRef)
        => /\ f.pc \in {"inhook", "ret"}
           /\ f.path = "hook"
           /\ f.calls = 1
           /\ f.fn = tables[f.eh]["alloc"]
           /\ (f.pc = "inhook" /\ i = Len(stack[t])) => level[t] = f.lvl0 + 1
           /\ f.pc = "ret" =>
                /\ f.err \in {"nullptr", "addr"}
                /\ f.ret = f.err
                /\ i = Len(stack[t]) => level[t] = f.lvl0

C14_Witness ==
    \E t \in Threads : \E u \in Threads \ {t} :
        /\ stack[t] # << >> /\ stack[u] # << >>
        /\ Top(t).op = "alloc"
        /\ Top(t).eh = "hooks_zeroed"
        /\ Top(t).pc = "inhook"
        /\ Top(t).fn = NULL
        /\ level[t] = 1
        /\ Top(u).op = "alloc"
        /\ Top(u).eh = "hooks_alloc_only"
        /\ Top(u).pc = "ret"
        /\ Top(u).fn = Fn("user", "alloc")
        /\ Top(u).ret = "addr"
        /\ level[u] = 0

\* How far a call has come: the reference loaded, the slot's function
\* running, the result in hand.
Rank(f) ==
    CASE f.pc = "loaded" -> 0
      [] f.pc = "inhook" -> 1
      [] f.pc = "ret" -> 2

\* C15.  Run to completion: in every state the innermost call of each
\* thread has its next step enabled, whatever the other threads have in
\* flight and whatever the handle names (the return of the function it
\* called is that function's to take); every step that changes a call moves
\* it forward, from the load to the call of the slot to the result, never
\* back and never to the same place again, so a call takes at most three
\* steps of its own; and a call is removed only with its result in hand and
\* the reentrancy level back at what it was when the call started.
C15_RunToCompletion ==
    /\ [](\A t \in Threads :
            stack[t] # << >> =>
                /\ Top(t).pc = "loaded" => ENABLED ehooks_split_rest(t)
                /\ Top(t).pc = "inhook" => ENABLED HookReturn(t)
                /\ Top(t).pc = "ret" =>
                     (ENABLED Return(t) /\ level[t] = Top(t).lvl0))
    /\ [][\A t \in Threads :
            /\ \A i \in Positions(t) :
                 i \in DOMAIN stack'[t] =>
                    \/ stack'[t][i] = stack[t][i]
                    \/ /\ Rank(stack'[t][i]) > Rank(stack[t][i])
                       /\ stack'[t][i].op = stack[t][i].op
                       /\ stack'[t][i].eh = stack[t][i].eh
            /\ Len(stack'[t]) < Len(stack[t]) =>
                    /\ stack'[t] = Below(t)
                    /\ Top(t).pc = "ret"
                    /\ level'[t] = Top(t).lvl0
            /\ Len(stack'[t]) > Len(stack[t]) =>
                    Len(stack'[t]) = Len(stack[t]) + 1]_vars

C15_Witness ==
    \E t \in Threads : \E u \in Threads \ {t} :
        /\ replaced
        /\ ptr = "hooks_zeroed"
        /\ stack[t] # << >> /\ stack[u] # << >>
        /\ Top(t).pc = "ret"
        /\ Top(t).op = "destroy"
        /\ Top(t).eh = "hooks_full"
        /\ Top(t).path = "hook"
        /\ level[t] = 0
        /\ Top(u).pc = "loaded"
        /\ Top(u).eh = "hooks_same_as_default"

====
